---- MODULE Spec2Model ----
(***************************************************************************)
(* A model of app.py: the Istanbul news aggregator.  fetch_google_news     *)
(* looks a key up in the TTL cache, and on a miss fetches the search feed, *)
(* sorts, slices, normalises and filters the entries, scrapes an image for *)
(* the first results that lack one through a pool of worker threads, and   *)
(* stores the result list in the cache.                                    *)
(*                                                                         *)
(* Python values.  A value that may be None is a tuple: <<>> is None and   *)
(* <<v>> is the value v.  A str is a TLA+ string.  TLA+ strings are ASCII, *)
(* so the Turkish letters of the source are written with one ASCII sign    *)
(* each, which no other text of the model uses:                            *)
(*     U+00E7 c-cedilla   "("      U+00C7 C-cedilla   "["                  *)
(*     U+011F g-breve     "&"      U+011E G-breve     "@"                  *)
(*     U+0131 dotless i   "!"      U+0130 dotted I    "#"                  *)
(*     U+00F6 o-umlaut    "*"      U+00D6 O-umlaut    "%"                  *)
(*     U+015F s-cedilla   "$"      U+015E S-cedilla   "="                  *)
(*     U+00FC u-umlaut    "_"      U+00DC U-umlaut    "^"                  *)
(*     U+0307 combining dot above  "+"                                     *)
(***************************************************************************)
EXTENDS Integers, Sequences, FiniteSets, TLC

None == <<>>
Some(v) == <<v>>

\* Python truthiness of an optional str: None and "" are falsy.
Truthy(o) == o # None /\ o[1] # ""

\* `o or ""` for an optional str.
OrEmpty(o) == IF Truthy(o) THEN o[1] ELSE ""

Min(a, b) == IF a <= b THEN a ELSE b

(***************************************************************************)
(* str operations                                                          *)
(***************************************************************************)
\* s.startswith(p)
StartsWith(s, p) == Len(s) >= Len(p) /\ SubSeq(s, 1, Len(p)) = p

\* s.find(sub, from): the least position >= from where sub occurs, 0 if none
\* (positions count from 1).
Find(s, sub, from) ==
    LET hits == {i \in from..(Len(s) - Len(sub) + 1) : SubSeq(s, i, i + Len(sub) - 1) = sub}
    IN  IF hits = {} THEN 0 ELSE CHOOSE i \in hits : \A j \in hits : i <= j

\* s.rfind(sub): the greatest position where sub occurs, 0 if none.
RFind(s, sub) ==
    LET hits == {i \in 1..(Len(s) - Len(sub) + 1) : SubSeq(s, i, i + Len(sub) - 1) = sub}
    IN  IF hits = {} THEN 0 ELSE CHOOSE i \in hits : \A j \in hits : i >= j

\* `sub in s`
Contains(sub, s) ==
    \E i \in 1..(Len(s) - Len(sub) + 1) : SubSeq(s, i, i + Len(sub) - 1) = sub

\* The text from position i to the end.
From(s, i) == SubSeq(s, i, Len(s))

\* The characters str.lower() changes.
UpperChars ==
    { "A", "B", "C", "D", "E", "F", "G", "H", "I", "J", "K", "L", "M", "N", "O", "P",
      "Q", "R", "S", "T", "U", "V", "W", "X", "Y", "Z", "[", "@", "#", "%", "=", "^" }

\* str.lower() of one character.  "#" (dotted capital I) lowers to two
\* characters, i and the combining dot; "I" lowers to the dotted i.
LowerChar(ch) ==
    LET up == "ABCDEFGHIJKLMNOPQRSTUVWXYZ[@%=^"
        lo == "abcdefghijklmnopqrstuvwxyz(&*$_"
        at == Find(up, ch, 1)
    IN  IF ch \notin UpperChars THEN ch
        ELSE IF ch = "#" THEN "i+"
        ELSE SubSeq(lo, at, at)

\* str.lower()
RECURSIVE Lower(_)
Lower(s) == IF s = "" THEN "" ELSE LowerChar(SubSeq(s, 1, 1)) \o Lower(From(s, 2))

\* s.replace(old, new, 1)
ReplaceFirst(s, old, new) ==
    LET at == Find(s, old, 1)
    IN  IF at = 0 THEN s
        ELSE SubSeq(s, 1, at - 1) \o new \o From(s, at + Len(old))

\* s.rsplit(sep, 1)[0]
RSplitHead(s, sep) ==
    LET at == RFind(s, sep)
    IN  IF at = 0 THEN s ELSE SubSeq(s, 1, at - 1)

\* str(n) for 0 <= n <= 99
IntStr(n) ==
    LET d(k) == SubSeq("0123456789", k + 1, k + 1)
    IN  IF n < 10 THEN d(n) ELSE d(n \div 10) \o d(n % 10)

\* str(b) for a bool
BoolStr(b) == IF b THEN "True" ELSE "False"

(***************************************************************************)
(* The relevance filter                                                    *)
(***************************************************************************)
IST_DISTRICTS ==
    { "adalar", "arnavutk*y", "ata$ehir", "avc!lar", "ba&c!lar", "bah(elievler",
      "bak!rk*y", "ba$ak$ehir", "bayrampa$a", "be$ikta$", "beykoz", "beylikd_z_",
      "beyo&lu", "b_y_k(ekmece", "(atalca", "(ekmek*y", "esenler", "esenyurt",
      "ey_psultan", "fatih", "gaziosmanpa$a", "g_ng*ren", "kad!k*y", "ka&!thane",
      "kartal", "k_(_k(ekmece", "maltepe", "pendik", "sancaktepe", "sar!yer",
      "silivri", "sultanbeyli", "sultangazi", "$ile", "$i$li", "tuzla",
      "_mraniye", "_sk_dar", "zeytinburnu" }

is_istanbul_related(title, link) ==
    LET t == Lower(OrEmpty(title))
        l == Lower(OrEmpty(link))
    IN  \/ Contains("istanbul", t)
        \/ Contains("i+stanbul", t)
        \/ Contains("istanbul", l)
        \/ \E d \in IST_DISTRICTS : Contains(d, t)

(***************************************************************************)
(* The link resolver                                                       *)
(***************************************************************************)
\* base64.b64decode(token + "===").decode("utf-8", errors="ignore") on the
\* tokens the model's links carry: <<text>>, or None where b64decode raises
\* (a count of data characters that is 1 more than a multiple of 4).  Bytes
\* that are not UTF-8 text are dropped by errors="ignore".
B64Text(token) ==
    CASE token = "aHR0cHM6Ly9oLmNvbS9h" -> Some("https://h.com/a")
      [] token = "aHR0cHM6Ly9oLmNvbS9pc3RhbmJ1bA" -> Some("https://h.com/istanbul")
      [] token = "bm8gdXJsIGhlcmU" -> Some("no url here")
      [] token = "aHR0cDovLyB4" -> Some("http:// x")
      [] token = "eCBodHRwczovL2guY29tL2EiYg" -> Some("x https://h.com/a\"b")
      [] token = "aHR0cDovL2EuYnxjPmQ" -> Some("http://a.b|c>d")
      [] token = "aHR0cHM6Ly8" -> Some("https://")
      [] token = "" -> Some("")
      [] OTHER -> IF Len(token) % 4 = 1 THEN None ELSE Some("")

\* The characters the pattern [^\s|"'>] refuses.
UrlStop == {" ", "|", "\"", "'", ">"}

\* A search that takes the whole text for a URL.
FirstUrl_WholeText(text) == Some(text)

\* re.search(r"(https?://[^\s|\"'>]+)", text): the first match, or None.
FirstUrl(text) ==
    LET starts == {i \in 1..Len(text) :
                     \E p \in {"http://", "https://"} :
                        /\ StartsWith(From(text, i), p)
                        /\ i + Len(p) <= Len(text)
                        /\ SubSeq(text, i + Len(p), i + Len(p)) \notin UrlStop}
    IN  IF starts = {} THEN None
        ELSE LET i == CHOOSE a \in starts : \A b \in starts : a <= b
                 stops == {j \in i..Len(text) : SubSeq(text, j, j) \in UrlStop}
                 end == IF stops = {} THEN Len(text)
                        ELSE (CHOOSE a \in stops : \A b \in stops : a <= b) - 1
             IN  Some(SubSeq(text, i, end))

\* source_url.split("articles/")[1].split("?")[0]
ArticleToken(source_url) ==
    LET a == Find(source_url, "articles/", 1)
        rest == From(source_url, a + Len("articles/"))
        b == Find(rest, "articles/", 1)
        seg == IF b = 0 THEN rest ELSE SubSeq(rest, 1, b - 1)
        q == Find(seg, "?", 1)
    IN  IF q = 0 THEN seg ELSE SubSeq(seg, 1, q - 1)

decode_url(source_url) ==
    IF ~Contains("news.google.com", source_url) \/ ~Contains("articles/", source_url)
    THEN source_url
    ELSE LET text == B64Text(ArticleToken(source_url))
         IN  IF text = None THEN source_url
             ELSE LET m == FirstUrl(text[1])
                  IN  IF m = None THEN source_url ELSE m[1]

(***************************************************************************)
(* The feed entry normaliser                                               *)
(*                                                                         *)
(* A feed entry is a record of optional fields: title, link, source (the   *)
(* source object's title), published_parsed (<<t>>, t the published time   *)
(* in minutes), and the four places an image may come from:                *)
(* media_content and media_thumbnail (the url of the first one), enclosure *)
(* (the href of the first image enclosure) and summary_img (what the first *)
(* <img> of the summary yields).                                           *)
(***************************************************************************)
pick_image_from_entry(e) ==
    IF Truthy(e.media_content) THEN e.media_content
    ELSE IF Truthy(e.media_thumbnail) THEN e.media_thumbnail
    ELSE IF Truthy(e.enclosure) THEN e.enclosure
    ELSE e.summary_img

\* "%02d" % n
TwoDigits(n) == IntStr(n \div 10) \o IntStr(n % 10)

format_time(e) ==
    IF e.published_parsed # None
    THEN LET t == e.published_parsed[1]
         IN  TwoDigits((t \div 60) % 24) \o ":" \o TwoDigits(t % 60)
    ELSE "--:--"

\* The dict that fetch_google_news appends for one entry.
NormalizeEntry(e, district) ==
    [ title    |-> RSplitHead(OrEmpty(e.title), " - "),
      link     |-> decode_url(OrEmpty(e.link)),
      image    |-> pick_image_from_entry(e),
      source   |-> IF e.source # None THEN e.source[1] ELSE "Haber",
      date     |-> format_time(e),
      district |-> district ]

(***************************************************************************)
(* The sort of the feed                                                    *)
(***************************************************************************)
\* The sort key: the published time, or the int 0 when there is none.
\* Times are >= 1, so 0 is below every time.
SortKey(e) == IF e.published_parsed # None THEN e.published_parsed[1] ELSE 0

\* sorted() compares the keys with <.  A time is a time.struct_time, and
\* Python 3 raises TypeError on `0 < struct_time`: the sort raises as soon as
\* the feed holds an entry with a published time and one without.
SortRaises(feed) ==
    \E i, j \in 1..Len(feed) :
        feed[i].published_parsed = None /\ feed[j].published_parsed # None

\* Puts e behind the last element whose key is >= e's key.
InsertDesc(sorted, e) ==
    LET ahead == {i \in 1..Len(sorted) : SortKey(sorted[i]) >= SortKey(e)}
        k == Cardinality(ahead)
    IN  SubSeq(sorted, 1, k) \o <<e>> \o SubSeq(sorted, k + 1, Len(sorted))

\* sorted(entries, key=..., reverse=True) where it does not raise: descending
\* by key, and stable (entries with equal keys keep the feed's order).
RECURSIVE SortDesc(_)
SortDesc(feed) ==
    IF feed = <<>> THEN <<>>
    ELSE InsertDesc(SortDesc(SubSeq(feed, 1, Len(feed) - 1)), feed[Len(feed)])

\* seq[:limit] for limit >= 0
Take(seq, limit) == SubSeq(seq, 1, Min(limit, Len(seq)))

\* A slice taken before the sort.
TopEntries_SliceFirst(feed, limit) == SortDesc(Take(feed, limit))

\* sorted(...)[:limit]
TopEntries(feed, limit) == Take(SortDesc(feed), limit)

(***************************************************************************)
(* The loop over the entries and the scrape queue                          *)
(***************************************************************************)
\* for e in entries: ... results.append({...})
RECURSIVE BuildResults(_, _, _)
BuildResults(entries, district, strict_istanbul) ==
    IF entries = <<>> THEN <<>>
    ELSE LET item == NormalizeEntry(Head(entries), district)
             rest == BuildResults(Tail(entries), district, strict_istanbul)
         IN  IF strict_istanbul /\ ~is_istanbul_related(Some(item.title), Some(item.link))
             THEN rest
             ELSE <<item>> \o rest

\* Only the first SCRAPE_FIRST results are looked at for a missing image.
SCRAPE_FIRST == 12

\* The indices (from 1) of the results that go to the scrape queue, in order.
ScrapeIndices(results) ==
    {i \in 1..Min(SCRAPE_FIRST, Len(results)) : ~Truthy(results[i].image)}

\* A queue that takes the items without an image of the whole list.
ScrapeQueueFrom_WholeList(results, i) ==
    SelectSeq([k \in 1..Len(results) |-> [idx |-> k, link |-> results[k].link]],
              LAMBDA q : q.idx >= i /\ ~Truthy(results[q.idx].image))

\* scrape_queue: the (idx, link) pairs in the order of the results.
RECURSIVE ScrapeQueueFrom(_, _)
ScrapeQueueFrom(results, i) ==
    IF i > Min(SCRAPE_FIRST, Len(results)) THEN <<>>
    ELSE (IF ~Truthy(results[i].image)
          THEN <<[idx |-> i, link |-> results[i].link]>> ELSE <<>>)
         \o ScrapeQueueFrom(results, i + 1)

ScrapeQueue(results) == ScrapeQueueFrom(results, 1)

(***************************************************************************)
(* The image enricher                                                      *)
(*                                                                         *)
(* What the article's server answers: kind "error" (a connection error or  *)
(* the 4 s timeout: SESSION.get raises) or kind "http" with a status and   *)
(* what the page holds: og (the content of the og:image meta tag, None     *)
(* without the tag), twitter (the same for twitter:image) and img (what    *)
(* the first <img> yields, None without one).                              *)
(***************************************************************************)
\* A scraper that does not look at the status.
get_real_image_AnyStatus(url, resp) ==
    IF url = "" THEN None
    ELSE IF resp.kind = "error" THEN None
    ELSE LET tag == IF resp.og # None THEN resp.og ELSE resp.twitter
         IN  IF Truthy(tag) THEN tag ELSE resp.img

get_real_image(url, resp) ==
    IF url = "" THEN None
    ELSE IF resp.kind = "error" THEN None
    ELSE IF resp.status >= 400 THEN None
    ELSE LET tag == IF resp.og # None THEN resp.og ELSE resp.twitter
         IN  IF Truthy(tag) THEN tag ELSE resp.img

\* Whether get_real_image(url) sends a request at all.
SendsRequest(url) == url # ""

\* A write-back that keeps the scheme.
SecureImage_Keep(img) == img

\* if img.startswith("http://"): img = img.replace("http://", "https://", 1)
SecureImage(img) ==
    IF StartsWith(img, "http://") THEN ReplaceFirst(img, "http://", "https://") ELSE img

\* The body of the as_completed loop for one future: results after the
\* future of index idx gave img.
WriteBack(results, idx, img) ==
    IF Truthy(img)
    THEN [results EXCEPT ![idx].image = Some(SecureImage(img[1]))]
    ELSE results

(***************************************************************************)
(* The TTL cache                                                           *)
(*                                                                         *)
(* CACHE is a function from the keys it holds to [exp, data].              *)
(***************************************************************************)
CACHE_TTL == 180

\* cache_key = f"{district}:{query}:{limit}:{strict_istanbul}"
CacheKey(a) ==
    a.district \o ":" \o a.query \o ":" \o IntStr(a.limit) \o ":" \o BoolStr(a.strict_istanbul)

\* now > exp
Expired(item, t) == t > item.exp

\* A pop that leaves the entry where it is.
CachePop_Keep(cache, key) == cache

\* A pop that sweeps the whole cache.
CachePop_Sweep(cache, key) == << >>

\* CACHE.pop(key, None)
CachePop(cache, key) == [k \in (DOMAIN cache) \ {key} |-> cache[k]]

\* A set that stores the list without its images.
cache_set_Stripped(cache, key, data, t) ==
    [k \in (DOMAIN cache) \cup {key} |->
        IF k = key
        THEN [exp |-> t + CACHE_TTL,
              data |-> [i \in DOMAIN data |-> [data[i] EXCEPT !.image = None]]]
        ELSE cache[k]]

\* cache_set run at time t: CACHE[key] = (time.time() + ttl, data)
cache_set(cache, key, data, t) ==
    [k \in (DOMAIN cache) \cup {key} |->
        IF k = key THEN [exp |-> t + CACHE_TTL, data |-> data] ELSE cache[k]]

\* cache_get run at time t with no other thread in between: what it returns
\* (None, or <<data>>) and the cache it leaves.  In the call, Lookup is
\* cache_get up to its expiry test and Evict is its pop.
cache_get(cache, key, t) ==
    IF key \notin DOMAIN cache THEN [ret |-> None, cache |-> cache]
    ELSE IF Expired(cache[key], t) THEN [ret |-> None, cache |-> CachePop(cache, key)]
    ELSE [ret |-> Some(cache[key].data), cache |-> cache]

\* `if cached:` in fetch_google_news: None is falsy, and so is an empty list.
IsHit(cached) == cached # None /\ cached[1] # <<>>

(***************************************************************************)
(* The state                                                               *)
(***************************************************************************)
\* The request threads (the server handles requests in threads).
Calls == {1, 2}

\* The pool of one call: ThreadPoolExecutor(max_workers=8)
MAX_WORKERS == 8

VARIABLES
    CACHE,         \* the module's cache dict
    now,           \* time.time(), in seconds
    pc,            \* where each call stands
    args,          \* the arguments of the call
    cached,        \* what cache_get returned to the call
    feed,          \* the entries of the feed the call fetched
    entries,       \* the sorted, sliced entries
    results,       \* the result list
    scrape_queue,  \* the (idx, link) pairs to scrape
    pages,         \* what the server of each queued link answers, by idx
    work_queue,    \* the submitted fetches no worker has taken yet
    running,       \* the idx of the fetches in flight
    finished,      \* the futures that are done and not yet yielded
    requests,      \* the HTTP requests the call has sent
    ret,           \* what the call returned: None, or <<list>>
    fetches,       \* how often get_real_image was started, by queued idx
    data,          \* breaking_news: the list after its second filter pass
    resolver,      \* a call of decode_url on its own
    relevance,     \* a call of is_istanbul_related on its own
    proxy          \* a request to /img

vars == <<CACHE, now, pc, args, cached, feed, entries, results, scrape_queue,
          pages, work_queue, running, finished, requests, ret, fetches, data,
          resolver, relevance, proxy>>

locals == <<args, cached, feed, entries, results, scrape_queue, pages,
            work_queue, running, finished, requests, ret, fetches, data>>

\* What fetch_google_news has no part in.
apart == <<resolver, relevance, proxy>>

\* No call of the function, no request to the route.
Idle == [at |-> "idle"]

NoArgs == [district |-> "", query |-> "", limit |-> 0, strict_istanbul |-> FALSE]

Init ==
    /\ CACHE = << >>
    /\ now = 0
    /\ pc = [c \in Calls |-> "idle"]
    /\ args = [c \in Calls |-> NoArgs]
    /\ cached = [c \in Calls |-> None]
    /\ feed = [c \in Calls |-> <<>>]
    /\ entries = [c \in Calls |-> <<>>]
    /\ results = [c \in Calls |-> <<>>]
    /\ scrape_queue = [c \in Calls |-> <<>>]
    /\ pages = [c \in Calls |-> << >>]
    /\ work_queue = [c \in Calls |-> <<>>]
    /\ running = [c \in Calls |-> {}]
    /\ finished = [c \in Calls |-> {}]
    /\ requests = [c \in Calls |-> 0]
    /\ ret = [c \in Calls |-> None]
    /\ fetches = [c \in Calls |-> << >>]
    /\ data = [c \in Calls |-> None]
    /\ resolver = Idle
    /\ relevance = Idle
    /\ proxy = Idle

(***************************************************************************)
(* fetch_google_news                                                       *)
(***************************************************************************)
\* A lookup whose hit gives the entry a new expiry time.
Lookup_Sliding(c, a) ==
    /\ pc[c] = "idle"
    /\ args' = [args EXCEPT ![c] = a]
    /\ LET key == CacheKey(a)
           got == cache_get(CACHE, key, now).ret
       IN  /\ cached' = [cached EXCEPT ![c] = got]
           /\ ret' = [ret EXCEPT ![c] = IF IsHit(got) THEN got ELSE None]
           /\ pc' = [pc EXCEPT ![c] =
                        IF key \in DOMAIN CACHE /\ Expired(CACHE[key], now) THEN "evict"
                        ELSE IF IsHit(got) THEN "done"
                        ELSE "fetch"]
           /\ CACHE' = IF IsHit(got) THEN cache_set(CACHE, key, got[1], now) ELSE CACHE
    /\ requests' = [requests EXCEPT ![c] = 0]
    /\ UNCHANGED <<now, feed, entries, results, scrape_queue, pages,
                   work_queue, running, finished, fetches, data, apart>>

\* The call starts: the cache key, and cache_get up to its expiry test.  An
\* entry that is there and not expired is returned to the call, which
\* returns it when it is truthy.
Lookup(c, a) ==
    /\ pc[c] = "idle"
    /\ args' = [args EXCEPT ![c] = a]
    /\ LET key == CacheKey(a)
           got == cache_get(CACHE, key, now).ret
       IN  /\ cached' = [cached EXCEPT ![c] = got]
           /\ ret' = [ret EXCEPT ![c] = IF IsHit(got) THEN got ELSE None]
           /\ pc' = [pc EXCEPT ![c] =
                        IF key \in DOMAIN CACHE /\ Expired(CACHE[key], now) THEN "evict"
                        ELSE IF IsHit(got) THEN "done"
                        ELSE "fetch"]
    /\ requests' = [requests EXCEPT ![c] = 0]
    /\ UNCHANGED <<CACHE, now, feed, entries, results, scrape_queue, pages,
                   work_queue, running, finished, fetches, data, apart>>

\* cache_get saw an expired entry: CACHE.pop(key, None), and the call goes on
\* as on a miss.
Evict(c) ==
    /\ pc[c] = "evict"
    /\ CACHE' = CachePop(CACHE, CacheKey(args[c]))
    /\ pc' = [pc EXCEPT ![c] = "fetch"]
    /\ UNCHANGED <<now, locals, apart>>

\* feedparser.parse(url) answers with the entries f (none when the fetch
\* fails); then the sort, the slice, the loop over the entries, the scrape
\* queue and the submission of one fetch per queued pair.  The servers of the
\* queued links will answer with some pages out of RespSet.
FetchFeed(c, f, RespSet) ==
    /\ pc[c] = "fetch"
    /\ feed' = [feed EXCEPT ![c] = f]
    /\ requests' = [requests EXCEPT ![c] = @ + 1]
    /\ IF SortRaises(f)
       THEN /\ pc' = [pc EXCEPT ![c] = "raised"]
            /\ UNCHANGED <<entries, results, scrape_queue, pages, work_queue, fetches>>
       ELSE LET top == TopEntries(f, args[c].limit)
                res == BuildResults(top, args[c].district, args[c].strict_istanbul)
                queue == ScrapeQueue(res)
            IN  /\ entries' = [entries EXCEPT ![c] = top]
                /\ results' = [results EXCEPT ![c] = res]
                /\ scrape_queue' = [scrape_queue EXCEPT ![c] = queue]
                /\ work_queue' = [work_queue EXCEPT ![c] = queue]
                /\ fetches' = [fetches EXCEPT ![c] = [i \in ScrapeIndices(res) |-> 0]]
                /\ \E pg \in [ScrapeIndices(res) -> RespSet] :
                      pages' = [pages EXCEPT ![c] = pg]
                /\ pc' = [pc EXCEPT ![c] = "enrich"]
    /\ UNCHANGED <<CACHE, now, args, cached, running, finished, ret, data, apart>>

\* The pool has a worker that is not running a fetch.
HasFreeWorker_Unbounded(c) == TRUE

HasFreeWorker(c) == Cardinality(running[c]) < MAX_WORKERS

\* A pool in which a fetch that was started stays queued.
StartFetch_KeepQueued(c) ==
    /\ pc[c] = "enrich"
    /\ work_queue[c] # <<>>
    /\ HasFreeWorker(c)
    /\ running' = [running EXCEPT ![c] = @ \cup {Head(work_queue[c]).idx}]
    /\ requests' = [requests EXCEPT ![c] =
                       IF SendsRequest(Head(work_queue[c]).link) THEN @ + 1 ELSE @]
    /\ fetches' = [fetches EXCEPT ![c][Head(work_queue[c]).idx] = @ + 1]
    /\ UNCHANGED <<CACHE, now, pc, args, cached, feed, entries, results, work_queue,
                   scrape_queue, pages, finished, ret, data, apart>>

\* A worker takes the oldest submitted fetch and calls get_real_image, which
\* sends the request unless the link is empty.
StartFetch(c) ==
    /\ pc[c] = "enrich"
    /\ work_queue[c] # <<>>
    /\ HasFreeWorker(c)
    /\ running' = [running EXCEPT ![c] = @ \cup {Head(work_queue[c]).idx}]
    /\ work_queue' = [work_queue EXCEPT ![c] = Tail(@)]
    /\ requests' = [requests EXCEPT ![c] =
                       IF SendsRequest(Head(work_queue[c]).link) THEN @ + 1 ELSE @]
    /\ fetches' = [fetches EXCEPT ![c][Head(work_queue[c]).idx] = @ + 1]
    /\ UNCHANGED <<CACHE, now, pc, args, cached, feed, entries, results,
                   scrape_queue, pages, finished, ret, data, apart>>

\* get_real_image returns in the worker: the future of idx is done.
FinishFetch(c, idx) ==
    /\ pc[c] = "enrich"
    /\ idx \in running[c]
    /\ running' = [running EXCEPT ![c] = @ \ {idx}]
    /\ finished' = [finished EXCEPT ![c] =
                       @ \cup {[idx |-> idx,
                                img |-> get_real_image(results[c][idx].link, pages[c][idx])]}]
    /\ UNCHANGED <<CACHE, now, pc, args, cached, feed, entries, results,
                   scrape_queue, pages, work_queue, requests, ret, fetches, data, apart>>

\* The index the result of future fut is written to.
TargetIndex_ByArrival(c, fut) ==
    scrape_queue[c][Len(scrape_queue[c]) - Len(work_queue[c])
                    - Cardinality(running[c]) - Cardinality(finished[c]) + 1].idx

\* idx = futures[fut]
TargetIndex(c, fut) == fut.idx

\* as_completed yields a future that is done, and the loop body writes its
\* image back.
Collect(c, fut) ==
    /\ pc[c] = "enrich"
    /\ fut \in finished[c]
    /\ finished' = [finished EXCEPT ![c] = @ \ {fut}]
    /\ results' = [results EXCEPT ![c] = WriteBack(@, TargetIndex(c, fut), fut.img)]
    /\ UNCHANGED <<CACHE, now, pc, args, cached, feed, entries, scrape_queue,
                   pages, work_queue, running, requests, ret, fetches, data, apart>>

\* A loop that ends when no done future is waiting.
BatchComplete_NoneWaiting(c) == finished[c] = {}

\* as_completed has yielded every future and the with block has joined the
\* pool (with an empty scrape queue there is no pool at all).
BatchComplete(c) ==
    work_queue[c] = <<>> /\ running[c] = {} /\ finished[c] = {}

\* A write that keeps the head of the list another call has stored.
Store_Merging(c) ==
    /\ pc[c] = "enrich"
    /\ BatchComplete(c)
    /\ LET key == CacheKey(args[c])
           mixed == IF key \in DOMAIN CACHE /\ CACHE[key].data # <<>> /\ results[c] # <<>>
                    THEN <<Head(CACHE[key].data)>> \o Tail(results[c])
                    ELSE results[c]
       IN  CACHE' = cache_set(CACHE, key, mixed, now)
    /\ ret' = [ret EXCEPT ![c] = Some(results[c])]
    /\ pc' = [pc EXCEPT ![c] = "done"]
    /\ UNCHANGED <<now, args, cached, feed, entries, results, scrape_queue,
                   pages, work_queue, running, finished, requests, fetches, data, apart>>

\* cache_set(cache_key, results); return results
Store(c) ==
    /\ pc[c] = "enrich"
    /\ BatchComplete(c)
    /\ CACHE' = cache_set(CACHE, CacheKey(args[c]), results[c], now)
    /\ ret' = [ret EXCEPT ![c] = Some(results[c])]
    /\ pc' = [pc EXCEPT ![c] = "done"]
    /\ UNCHANGED <<now, args, cached, feed, entries, results, scrape_queue,
                   pages, work_queue, running, finished, requests, fetches, data, apart>>

\* The route has answered (the list, or the server's error page after an
\* exception): the thread is free for the next request.
Respond(c) ==
    /\ pc[c] \in {"done", "raised"}
    /\ pc' = [pc EXCEPT ![c] = "idle"]
    /\ args' = [args EXCEPT ![c] = NoArgs]
    /\ cached' = [cached EXCEPT ![c] = None]
    /\ feed' = [feed EXCEPT ![c] = <<>>]
    /\ entries' = [entries EXCEPT ![c] = <<>>]
    /\ results' = [results EXCEPT ![c] = <<>>]
    /\ scrape_queue' = [scrape_queue EXCEPT ![c] = <<>>]
    /\ pages' = [pages EXCEPT ![c] = << >>]
    /\ requests' = [requests EXCEPT ![c] = 0]
    /\ ret' = [ret EXCEPT ![c] = None]
    /\ fetches' = [fetches EXCEPT ![c] = << >>]
    /\ data' = [data EXCEPT ![c] = None]
    /\ UNCHANGED <<CACHE, now, work_queue, running, finished, apart>>

(***************************************************************************)
(* The clock                                                               *)
(***************************************************************************)
\* How many TTLs the clock runs over.
MaxTtlSpans == 1

\* The instants the clock is looked at: around every multiple of the TTL.
ClockValues ==
    {t \in 0..(MaxTtlSpans * CACHE_TTL + 1) : t % CACHE_TTL \in {0, 1}}

\* Time passes (time.time() taken as never going back).
Tick(t) ==
    /\ t > now
    /\ now' = t
    /\ UNCHANGED <<CACHE, pc, locals, apart>>

(***************************************************************************)
(* The inputs                                                              *)
(***************************************************************************)
NoEntry ==
    [ title |-> None, link |-> None, source |-> None, published_parsed |-> None,
      media_content |-> None, media_thumbnail |-> None, enclosure |-> None,
      summary_img |-> None ]

\* A district in the title, a redirect link, a thumbnail over plain http.
EntryKartal ==
    [NoEntry EXCEPT !.title = Some("Kartal yangin - Haber7"),
                    !.link = Some("https://news.google.com/rss/articles/aHR0cHM6Ly9oLmNvbS9h?oc=5"),
                    !.source = Some("Haber7"),
                    !.published_parsed = Some(2),
                    !.media_thumbnail = Some("http://img.h.com/1.jpg")]

\* Nothing of Istanbul in it, no image.
EntryAnkara ==
    [NoEntry EXCEPT !.title = Some("Ankara haberi - Gazete"),
                    !.link = Some("https://g.com/ankara"),
                    !.published_parsed = Some(1)]

\* No title, no published time; the redirect link resolves to an Istanbul link.
EntryBare ==
    [NoEntry EXCEPT !.link = Some("https://news.google.com/rss/articles/aHR0cHM6Ly9oLmNvbS9pc3RhbmJ1bA?oc=5")]

\* A capital dotted I in the title, no link, an <img> with an empty src.
EntryTrafik ==
    [NoEntry EXCEPT !.title = Some("#STANBUL trafik"),
                    !.published_parsed = Some(2),
                    !.summary_img = Some("")]

\* The latest one: no image, a link that is no redirect.
EntryPendik ==
    [NoEntry EXCEPT !.title = Some("Pendik - metro - NTV"),
                    !.link = Some("https://ntv.com/pendik"),
                    !.source = Some("NTV"),
                    !.published_parsed = Some(3)]

\* No published time, nothing of Istanbul.
EntryUndated ==
    [NoEntry EXCEPT !.title = Some("Bursa"),
                    !.link = Some("https://b.com/1")]

RespError == [kind |-> "error", status |-> 0, og |-> None, twitter |-> None, img |-> None]

RespNotFound ==
    [kind |-> "http", status |-> 404, og |-> Some("https://s.com/404.png"),
     twitter |-> None, img |-> None]

RespOgHttp ==
    [kind |-> "http", status |-> 200, og |-> Some("http://i.com/a.jpg?u=http://j.com"),
     twitter |-> None, img |-> None]

RespTwitterHttps ==
    [kind |-> "http", status |-> 200, og |-> None,
     twitter |-> Some("https://i.com/b.jpg"), img |-> None]

RespImgUpper ==
    [kind |-> "http", status |-> 200, og |-> Some(""), twitter |-> Some("https://i.com/t.jpg"),
     img |-> Some("HTTP://i.com/c.jpg")]

RespNoImage ==
    [kind |-> "http", status |-> 200, og |-> None, twitter |-> None, img |-> None]

\* The longest feed.
MaxFeed == 3

RECURSIVE SeqsUpTo(_, _)
SeqsUpTo(S, n) ==
    IF n = 0 THEN {<<>>}
    ELSE LET shorter == SeqsUpTo(S, n - 1)
         IN  shorter \cup {Append(q, x) : q \in {r \in shorter : Len(r) = n - 1}, x \in S}

Args(district, query, limit, strict_istanbul) ==
    [district |-> district, query |-> query, limit |-> limit,
     strict_istanbul |-> strict_istanbul]

\* A step of the pool of call c and of the loop over its futures.
EnrichStep(c) ==
    \/ StartFetch(c)
    \/ \E idx \in running[c] : FinishFetch(c, idx)
    \/ \E fut \in finished[c] : Collect(c, fut)

(***************************************************************************)
(* Spec.  Requests over time: two request threads, two keys, a feed that   *)
(* is empty or holds one entry without an image, and the clock.            *)
(***************************************************************************)
CacheArgs ==
    { Args("Kartal", "kartal haber", 30, TRUE),
      Args("Kartal", "kartal haber", 30, FALSE) }

CacheFeeds == {<<>>, <<EntryPendik>>}

CacheResps == {RespTwitterHttps}

Next ==
    \/ \E c \in Calls : \E a \in CacheArgs : Lookup(c, a)
    \/ \E c \in Calls : Evict(c)
    \/ \E c \in Calls : \E f \in CacheFeeds : FetchFeed(c, f, CacheResps)
    \/ \E c \in Calls : EnrichStep(c)
    \/ \E c \in Calls : Store(c)
    \/ \E c \in Calls : Respond(c)
    \/ \E t \in ClockValues : Tick(t)

Spec == Init /\ [][Next]_vars

(***************************************************************************)
(* SpecFeed.  One call on an empty cache, over every feed of at most       *)
(* MaxFeed entries, with limits below the feed's length and both settings  *)
(* of the filter.                                                          *)
(***************************************************************************)
FeedEntries ==
    {EntryKartal, EntryAnkara, EntryBare, EntryTrafik, EntryPendik, EntryUndated}

FeedFeeds == SeqsUpTo(FeedEntries, MaxFeed)

FeedArgs == {Args("Kartal", "kartal", l, st) : l \in {1, 2}, st \in BOOLEAN}

NextFeed ==
    \/ \E a \in FeedArgs : Lookup(1, a)
    \/ \E f \in FeedFeeds : FetchFeed(1, f, {RespError})
    \/ EnrichStep(1)
    \/ Store(1)

SpecFeed == Init /\ [][NextFeed]_vars

(***************************************************************************)
(* SpecEnrich.  One call on an empty cache, over feeds of entries with and *)
(* without an image and every answer of the scraped servers.               *)
(***************************************************************************)
EnrichFeeds == SeqsUpTo({EntryKartal, EntryAnkara}, MaxFeed)

EnrichArgs == {Args("Kartal", "kartal", 30, FALSE)}

EnrichResps ==
    {RespError, RespNotFound, RespNoImage, RespOgHttp, RespTwitterHttps, RespImgUpper}

NextEnrich ==
    \/ \E a \in EnrichArgs : Lookup(1, a)
    \/ \E f \in EnrichFeeds : FetchFeed(1, f, EnrichResps)
    \/ EnrichStep(1)
    \/ Store(1)

SpecEnrich == Init /\ [][NextEnrich]_vars

(***************************************************************************)
(* SpecPool.  One call whose feed queues more fetches than the pool has    *)
(* workers.                                                                *)
(***************************************************************************)
\* The fetches queued beyond MAX_WORKERS.
PoolExtra == 1

PoolFeed == [i \in 1..(MAX_WORKERS + PoolExtra) |-> EntryAnkara]

NextPool ==
    \/ \E a \in EnrichArgs : Lookup(1, a)
    \/ FetchFeed(1, PoolFeed, {RespError})
    \/ EnrichStep(1)
    \/ Store(1)

SpecPool == Init /\ [][NextPool]_vars

(***************************************************************************)
(* SpecFrame.  One call whose feed gives more than SCRAPE_FIRST results:   *)
(* some without an image at the head, then results with the feed's image,  *)
(* then results without one on both sides of position SCRAPE_FIRST.        *)
(***************************************************************************)
\* The results beyond position SCRAPE_FIRST.
FrameExtra == 2

\* The latest entry: nothing of Istanbul, no image.  The filter drops it.
EntryIzmir ==
    [NoEntry EXCEPT !.title = Some("Izmir haberi - Gazete"),
                    !.link = Some("https://g.com/izmir"),
                    !.published_parsed = Some(4)]

\* The earliest entry: a district, no image.
EntryTuzla ==
    [NoEntry EXCEPT !.title = Some("Tuzla tersane - NTV"),
                    !.link = Some("https://ntv.com/tuzla"),
                    !.source = Some("NTV"),
                    !.published_parsed = Some(1)]

\* A feed of SCRAPE_FIRST + FrameExtra entries, earliest first: a of
\* EntryTuzla, then EntryKartal, and z of EntryIzmir at the end.
FrameFeed(z, a) ==
    [i \in 1..(SCRAPE_FIRST + FrameExtra) |->
        IF i <= a THEN EntryTuzla
        ELSE IF i <= SCRAPE_FIRST + FrameExtra - z THEN EntryKartal
        ELSE EntryIzmir]

FrameFeeds == {FrameFeed(z, a) : z \in {0, 1}, a \in (FrameExtra + 1)..(FrameExtra + 2)}

FrameArgs == {Args("Kartal", "kartal", 30, st) : st \in BOOLEAN}

FrameResps == {RespError, RespOgHttp}

NextFrame ==
    \/ \E a \in FrameArgs : Lookup(1, a)
    \/ \E f \in FrameFeeds : FetchFeed(1, f, FrameResps)
    \/ EnrichStep(1)
    \/ Store(1)

SpecFrame == Init /\ [][NextFrame]_vars

(***************************************************************************)
(* SpecRace.  Two request threads call with the same arguments on an empty *)
(* cache; the feed and the pages may differ from one call to the other.    *)
(***************************************************************************)
RaceArgs == {Args("Kartal", "kartal", 30, FALSE)}

RaceFeeds == {<<EntryPendik, EntryAnkara>>, <<EntryAnkara, EntryTuzla>>}

RaceResps == {RespError, RespOgHttp}

NextRace ==
    \/ \E c \in Calls : \E a \in RaceArgs : Lookup(c, a)
    \/ \E c \in Calls : \E f \in RaceFeeds : FetchFeed(c, f, RaceResps)
    \/ \E c \in Calls : EnrichStep(c)
    \/ \E c \in Calls : Store(c)

SpecRace == Init /\ [][NextRace]_vars

(***************************************************************************)
(* breaking_news                                                           *)
(***************************************************************************)
\* fetch_google_news(q, "Istanbul" with the dotted I, 70, strict_istanbul=True).
\* The query goes into the cache key and the feed's URL only; it is written
\* here by its first words.
BreakingArgs == Args("#stanbul", "#stanbul son dakika", 70, TRUE)

\* A second pass that looks at the title alone.
SecondPass_TitleOnly(list) ==
    SelectSeq(list, LAMBDA x : is_istanbul_related(Some(x.title), None))

\* [x for x in data if is_istanbul_related(x.get("title"), x.get("link"))]
SecondPass(list) ==
    SelectSeq(list, LAMBDA x : is_istanbul_related(Some(x.title), Some(x.link)))

\* fetch_google_news has returned to breaking_news, which filters the list
\* once more.
BreakingFilter(c) ==
    /\ pc[c] = "done"
    /\ args[c] = BreakingArgs
    /\ data[c] = None
    /\ data' = [data EXCEPT ![c] = Some(SecondPass(ret[c][1]))]
    /\ UNCHANGED <<CACHE, now, pc, args, cached, feed, entries, results, scrape_queue,
                   pages, work_queue, running, finished, requests, ret, fetches, apart>>

\* return jsonify(data), or the server's error page when fetch_google_news
\* raised.
BreakingAnswer(c) ==
    /\ pc[c] = "raised" \/ data[c] # None
    /\ Respond(c)

(***************************************************************************)
(* SpecBreaking.  Requests to /get-breaking one after the other: the first *)
(* fetches a feed, the later ones are served from the cache.               *)
(***************************************************************************)
\* No title, a published time; the redirect link resolves to an Istanbul link.
EntryLinkOnly == [EntryBare EXCEPT !.published_parsed = Some(1)]

BreakingFeeds ==
    SeqsUpTo({EntryKartal, EntryAnkara, EntryBare, EntryTrafik, EntryLinkOnly}, MaxFeed)

NextBreaking ==
    \/ Lookup(1, BreakingArgs)
    \/ \E f \in BreakingFeeds : FetchFeed(1, f, {RespError, RespOgHttp})
    \/ EnrichStep(1)
    \/ Store(1)
    \/ BreakingFilter(1)
    \/ BreakingAnswer(1)

SpecBreaking == Init /\ [][NextBreaking]_vars

(***************************************************************************)
(* SpecResolver.  decode_url on its own, called with None and with every   *)
(* text put together from a host, a path, a token and a tail.              *)
(***************************************************************************)
\* decode_url is called with x: None, or <<text>>.
CallResolver(x) ==
    /\ resolver.at # "called"
    /\ resolver' = [at |-> "called", source_url |-> x]
    /\ UNCHANGED <<CACHE, now, pc, locals, relevance, proxy>>

\* decode_url returns.  With None the test `"news.google.com" not in
\* source_url` raises TypeError inside the try, and the bare except returns
\* source_url; nothing decode_url does is outside the try.
ReturnResolver ==
    /\ resolver.at = "called"
    /\ resolver' = [at |-> "returned", source_url |-> resolver.source_url,
                    raised |-> FALSE,
                    out |-> IF resolver.source_url = None THEN None
                            ELSE Some(decode_url(resolver.source_url[1]))]
    /\ UNCHANGED <<CACHE, now, pc, locals, relevance, proxy>>

ResolverHosts == {"https://news.google.com/rss/", "https://example.com/", ""}

ResolverPaths == {"articles/", "article/", ""}

\* Tokens that decode to a URL, to a URL inside other text, to text without
\* a URL, to a scheme with nothing behind it, and tokens b64decode refuses.
ResolverTokens ==
    { "aHR0cHM6Ly9oLmNvbS9h", "eCBodHRwczovL2guY29tL2EiYg", "aHR0cDovL2EuYnxjPmQ",
      "bm8gdXJsIGhlcmU", "aHR0cDovLyB4", "aHR0cHM6Ly8", "abcde", "" }

ResolverTails == {"", "?oc=5", "?a=articles/x"}

ResolverInputs ==
    {None} \cup {Some(h \o p \o t \o q) :
                    h \in ResolverHosts, p \in ResolverPaths,
                    t \in ResolverTokens, q \in ResolverTails}

NextResolver ==
    \/ \E x \in ResolverInputs : CallResolver(x)
    \/ ReturnResolver

SpecResolver == Init /\ [][NextResolver]_vars

(***************************************************************************)
(* The image proxy                                                         *)
(*                                                                         *)
(* What the upstream server answers: kind "error" (SESSION.get raises: no  *)
(* connection, a timeout), kind "cut" (the headers came with the status    *)
(* but reading r.content raises) or kind "http" with a status, the         *)
(* Content-Type header (None without one) and the body.                    *)
(***************************************************************************)
\* A test that takes any scheme.
IsHttpUrl_AnyScheme(u) == Contains("://", u)

\* u.startswith("http://") or u.startswith("https://")
IsHttpUrl(u) == StartsWith(u, "http://") \/ StartsWith(u, "https://")

\* return ("", status)
EmptyReply(status) ==
    [status |-> status, body |-> "", content_type |-> None, cache_control |-> None]

\* What img_proxy returns once the upstream server has answered with r.
RelayReply(r) ==
    IF r.kind # "http" THEN EmptyReply(404)
    ELSE IF r.status >= 400 THEN EmptyReply(404)
    ELSE [status |-> 200, body |-> r.body,
          content_type |-> Some(IF r.content_type # None THEN r.content_type[1] ELSE "image/jpeg"),
          cache_control |-> Some("public, max-age=86400")]

\* A request to /img arrives; q is the query parameter u, None without one.
ImgRequest(q) ==
    /\ proxy.at \in {"idle", "replied"}
    /\ proxy' = [at |-> "received", q |-> q, sent |-> 0]
    /\ UNCHANGED <<CACHE, now, pc, locals, resolver, relevance>>

\* u = request.args.get("u", ""), the two tests, and SESSION.get(u) sent.
ImgValidate ==
    /\ proxy.at = "received"
    /\ LET u == IF proxy.q = None THEN "" ELSE proxy.q[1]
       IN  IF u = "" \/ ~IsHttpUrl(u)
           THEN proxy' = [at |-> "replied", q |-> proxy.q, sent |-> 0,
                          reply |-> EmptyReply(400)]
           ELSE proxy' = [at |-> "upstream", q |-> proxy.q, sent |-> 1]
    /\ UNCHANGED <<CACHE, now, pc, locals, resolver, relevance>>

\* The upstream server answers with r (after the redirects), or the request
\* fails.
ImgUpstream(r) ==
    /\ proxy.at = "upstream"
    /\ proxy' = [at |-> "replied", q |-> proxy.q, sent |-> proxy.sent, r |-> r,
                 reply |-> RelayReply(r)]
    /\ UNCHANGED <<CACHE, now, pc, locals, resolver, relevance>>

(***************************************************************************)
(* SpecProxy.  Requests to /img, with and without a usable u, and every    *)
(* answer of the upstream server.                                          *)
(***************************************************************************)
ProxyParams ==
    { None, Some(""), Some("ftp://x"), Some("x.com/a.png"), Some("//x.com/a.png"),
      Some("HTTP://x.com/a.png"), Some(" http://x.com/a.png"), Some("https:/x"),
      Some("http://x.com/a.png"), Some("https://x.com/a.png"), Some("http://"),
      Some("https://x.com/?u=ftp://y") }

ProxyAnswers ==
    { [kind |-> "error", status |-> 0, content_type |-> None, body |-> ""],
      [kind |-> "cut", status |-> 200, content_type |-> Some("image/png"), body |-> ""] }
    \cup { [kind |-> "http", status |-> st, content_type |-> ct, body |-> b] :
               st \in {200, 204, 399, 400, 404, 500},
               ct \in {None, Some("image/png"), Some("text/html")},
               b \in {"", "PNG"} }

NextProxy ==
    \/ \E q \in ProxyParams : ImgRequest(q)
    \/ ImgValidate
    \/ \E r \in ProxyAnswers : ImgUpstream(r)

SpecProxy == Init /\ [][NextProxy]_vars

(***************************************************************************)
(* SpecRelevance.  is_istanbul_related on its own, over titles and links   *)
(* in several letter cases.                                                *)
(***************************************************************************)
\* is_istanbul_related is called with a title and a link, each None or
\* <<text>>.
CallRelevance(t, l) ==
    /\ relevance.at # "called"
    /\ relevance' = [at |-> "called", title |-> t, link |-> l]
    /\ UNCHANGED <<CACHE, now, pc, locals, resolver, proxy>>

\* is_istanbul_related returns.
ReturnRelevance ==
    /\ relevance.at = "called"
    /\ relevance' = [at |-> "returned", title |-> relevance.title, link |-> relevance.link,
                     out |-> is_istanbul_related(relevance.title, relevance.link)]
    /\ UNCHANGED <<CACHE, now, pc, locals, resolver, proxy>>

\* Titles: none, empty, districts and the city in lower case, capitalised
\* and in capitals (as str.upper() writes them), and a title with neither.
RelevanceTitles ==
    { None, Some(""), Some("Ankara'da kar"),
      Some("kartal sahili"), Some("Kartal sahili"), Some("KARTAL SAHILI"),
      Some("kad!k*y iskelesi"), Some("Kad!k*y iskelesi"), Some("KADIK%Y ISKELESI"),
      Some("$i$li'de"), Some("=I=LI'DE"),
      Some("istanbul'da"), Some("Istanbul'da"), Some("ISTANBUL'DA"),
      Some("#stanbul'da"), Some("#STANBUL'DA") }

RelevanceLinks ==
    { None, Some(""), Some("https://h.com/a"), Some("https://h.com/istanbul/a"),
      Some("https://H.COM/ISTANBUL/A"), Some("https://h.com/#stanbul/a"),
      Some("https://h.com/kartal") }

NextRelevance ==
    \/ \E t \in RelevanceTitles : \E l \in RelevanceLinks : CallRelevance(t, l)
    \/ ReturnRelevance

SpecRelevance == Init /\ [][NextRelevance]_vars

(***************************************************************************)
(* The properties                                                          *)
(***************************************************************************)
\* The call went past the cache: it fetched the feed.
Missed(c) == pc[c] \in {"enrich", "done", "raised"} /\ ~IsHit(cached[c])

\* No fetch of call c is queued, in flight, or done and not yet yielded.
NothingOutstanding(c) ==
    work_queue[c] = <<>> /\ running[c] = {} /\ finished[c] = {}

\* C1.  Whenever cache_get hands the call an entry that is not expired, the
\* call returns that payload at once and sends no request, whatever the
\* payload's length.
C1_CacheHitSkipsNetwork ==
    \A c \in Calls :
        cached[c] # None =>
            pc[c] = "done" /\ ret[c] = cached[c] /\ requests[c] = 0

\* C2.  cache_set followed by cache_get less than CACHE_TTL seconds later
\* gives the payload back unchanged and leaves the cache alone; a cache_get
\* after the expiry time gives None and removes the key.  Stated on the steps
\* of the calls: the step that runs cache_set, the step that runs cache_get up
\* to the expiry test, and the step that pops the expired key.
C2_CacheRoundTrip ==
    [][\A c \in Calls :
        LET key == CacheKey(args'[c]) IN
        /\ (pc[c] = "enrich" /\ pc'[c] = "done") =>
              /\ \A t \in {now, now + 1, now + CACHE_TTL - 1} :
                    cache_get(CACHE', key, t) = [ret |-> Some(results[c]), cache |-> CACHE']
              /\ \A t \in {now + CACHE_TTL + 1, now + 2 * CACHE_TTL} :
                    /\ cache_get(CACHE', key, t).ret = None
                    /\ key \notin DOMAIN cache_get(CACHE', key, t).cache
        /\ (pc[c] = "idle" /\ pc'[c] # "idle" /\ key \in DOMAIN CACHE) =>
              IF now > CACHE[key].exp
              THEN cached'[c] = None /\ pc'[c] = "evict"
              ELSE cached'[c] = Some(CACHE[key].data) /\ CACHE' = CACHE
        /\ (pc[c] = "evict" /\ pc'[c] # "evict") => key \notin DOMAIN CACHE'
    ]_vars

\* A call is served from the cache some time after the set, before the expiry.
C2_Witness ==
    \E c \in Calls :
        /\ pc[c] = "done" /\ IsHit(cached[c])
        /\ now > 0 /\ now < CACHE[CacheKey(args[c])].exp

\* The keys of s never rise: descending by published time, an entry without
\* one counting as the earliest.
Descending(s) ==
    \A i, j \in 1..Len(s) : i < j => SortKey(s[i]) >= SortKey(s[j])

\* top holds n entries of f, each taken once, and no entry of f left out is
\* more recent than one taken.
IsMostRecent(top, f, n) ==
    /\ Len(top) = n
    /\ \E at \in [1..n -> 1..Len(f)] :
          /\ \A i, j \in 1..n : i # j => at[i] # at[j]
          /\ \A i \in 1..n : top[i] = f[at[i]]
          /\ \A k \in (1..Len(f)) \ {at[i] : i \in 1..n} :
                \A i \in 1..n : SortKey(f[k]) <= SortKey(top[i])

\* C3.  On a miss the call sorts whatever feed it got: it goes on with the
\* feed's entries in descending order of published time, the entries without
\* one behind all the others, also for a feed that mixes both kinds.
C3_SortOrdersEveryFeed ==
    \A c \in Calls :
        Missed(c) =>
            /\ pc[c] # "raised"
            /\ Descending(entries[c])
            /\ IsMostRecent(entries[c], feed[c], Min(args[c].limit, Len(feed[c])))

\* The item with its image left out.
SansImage(item) == [item EXCEPT !.image = None]

\* The items the filter lets through.
Passes(item, strict_istanbul) ==
    ~strict_istanbul \/ is_istanbul_related(Some(item.title), Some(item.link))

\* C4.  On a miss the list the call returns comes from the `limit` most
\* recent entries of the feed (all of them when the feed has fewer), in
\* descending order of published time: it is their normalised items, in that
\* order, without those that fail the filter when strict_istanbul is set.  So
\* it has at most `limit` items, and under strict_istanbul each one passes
\* is_istanbul_related(title, link).
C4_ResultIsTopLimitFiltered ==
    \A c \in Calls :
        (pc[c] = "done" /\ Missed(c)) =>
            LET r == ret[c][1]
                a == args[c]
                items == [i \in 1..Len(entries[c]) |-> NormalizeEntry(entries[c][i], a.district)]
                kept == {i \in 1..Len(items) : Passes(items[i], a.strict_istanbul)}
                nth(k) == CHOOSE i \in kept : Cardinality({j \in kept : j < i}) = k - 1
            IN  /\ Descending(entries[c])
                /\ IsMostRecent(entries[c], feed[c], Min(a.limit, Len(feed[c])))
                /\ Len(r) = Cardinality(kept)
                /\ \A k \in 1..Len(r) : SansImage(r[k]) = SansImage(items[nth(k)])
                /\ Len(r) <= a.limit
                /\ a.strict_istanbul =>
                      \A k \in 1..Len(r) : is_istanbul_related(Some(r[k].title), Some(r[k].link))

\* A feed longer than the limit, of which the filter drops a part.
C4_Witness ==
    \E c \in Calls :
        /\ pc[c] = "done" /\ Missed(c)
        /\ args[c].strict_istanbul
        /\ Len(feed[c]) > args[c].limit
        /\ Len(ret[c][1]) >= 1
        /\ Len(ret[c][1]) < Len(entries[c])

\* C10.  No call ends in an error, whatever the feed and the pages.
C10_NoErrorSurfaces == \A c \in Calls : pc[c] # "raised"

\* The result list of call c as the loop over the entries left it, before
\* any image was written back.
BeforeEnrichment(c) ==
    BuildResults(entries[c], args[c].district, args[c].strict_istanbul)

\* What the fetch dispatched for index i of call c gives.
Scraped(c, i) == get_real_image(BeforeEnrichment(c)[i].link, pages[c][i])

\* The list when each queued index has received the image of its own fetch.
EnrichedByIndex(c) ==
    LET base == BeforeEnrichment(c)
    IN  [i \in 1..Len(base) |->
            IF i \in DOMAIN pages[c] /\ Truthy(Scraped(c, i))
            THEN [base[i] EXCEPT !.image = Some(SecureImage(Scraped(c, i)[1]))]
            ELSE base[i]]

\* C5.  Each image is written to the item whose fetch it comes from, in
\* whatever order the fetches complete: with the answers of the servers
\* fixed, the returned list is the same under every interleaving.
C5_WriteBackByIndex ==
    \A c \in Calls :
        (pc[c] = "done" /\ Missed(c)) => ret[c][1] = EnrichedByIndex(c)

\* A later item has its image while the fetch of an earlier one is still in
\* flight.
C5_Witness ==
    \E c \in Calls : \E i, j \in DOMAIN pages[c] :
        /\ pc[c] = "enrich"
        /\ i < j
        /\ i \in running[c]
        /\ Truthy(Scraped(c, i))
        /\ Truthy(results[c][j].image)
        /\ results[c][j].image # results[c][i].image

\* The fetch answered by resp fails: an error or timeout, or a status >= 400.
FetchFails(resp) == resp.kind = "error" \/ resp.status >= 400

\* C6.  When every fetch of the batch fails, the call neither raises nor
\* stops: it always has a step to take until it has returned, and its list
\* keeps the length, the order and the absent images it had before.
C6_BatchNeverFails ==
    \A c \in Calls :
        (Missed(c) /\ DOMAIN pages[c] # {} /\ \A i \in DOMAIN pages[c] : FetchFails(pages[c][i])) =>
            /\ pc[c] # "raised"
            /\ results[c] = BeforeEnrichment(c)
            /\ \A i \in DOMAIN pages[c] : ~Truthy(results[c][i].image)
            /\ pc[c] = "enrich" =>
                  \/ work_queue[c] # <<>> /\ Cardinality(running[c]) < MAX_WORKERS
                  \/ running[c] # {}
                  \/ finished[c] # {}
                  \/ NothingOutstanding(c)
            /\ pc[c] = "done" => ret[c] = Some(BeforeEnrichment(c))

\* A call has returned after a batch in which every fetch failed, by an error
\* and by a status.
C6_Witness ==
    \E c \in Calls :
        /\ pc[c] = "done" /\ Missed(c)
        /\ \A i \in DOMAIN pages[c] : FetchFails(pages[c][i])
        /\ \E i, j \in DOMAIN pages[c] :
              pages[c][i].kind = "error" /\ pages[c][j].kind = "http"

\* C7.  In one call at most MAX_WORKERS fetches are in flight at any moment,
\* however many are queued.
C7_AtMostEightInFlight ==
    \A c \in Calls : Cardinality(running[c]) <= MAX_WORKERS

\* Every worker is busy and a fetch still waits.
C7_Witness ==
    \E c \in Calls :
        Cardinality(running[c]) = MAX_WORKERS /\ work_queue[c] # <<>>

\* C8.  The whole batch is awaited: a call that missed returns, and the cache
\* gets or changes an entry, only in a step of a call of which no fetch is
\* queued, in flight or waiting to be yielded.
C8_FullBatchAwaited ==
    [][/\ \A c \in Calls :
             (pc[c] # "done" /\ pc'[c] = "done" /\ ~IsHit(cached'[c])) => NothingOutstanding(c)
       /\ (\E k \in DOMAIN CACHE' : k \notin DOMAIN CACHE \/ CACHE'[k] # CACHE[k]) =>
             \E c \in Calls :
                 pc[c] = "enrich" /\ pc'[c] = "done" /\ NothingOutstanding(c)
      ]_vars

\* A batch is partly done: an image is written back, another fetch is still
\* in flight, and nothing is stored.
C8_Witness ==
    \E c \in Calls : \E i, j \in DOMAIN pages[c] :
        /\ pc[c] = "enrich"
        /\ Truthy(results[c][i].image)
        /\ j \in running[c]
        /\ CacheKey(args[c]) \notin DOMAIN CACHE

\* C9.  An image that enrichment wrote never starts with "http://": a scraped
\* URL that starts with "http://" is stored with that prefix, and nothing
\* else of it, turned into "https://", and any other scraped URL as it is.
\* (startswith looks for these very characters.)
C9_EnrichedImageIsSecure ==
    \A c \in Calls :
        Missed(c) /\ pc[c] # "raised" =>
            /\ \A i \in DOMAIN pages[c] :
                  Truthy(results[c][i].image) =>
                      LET img == results[c][i].image[1]
                          raw == Scraped(c, i)
                      IN  /\ ~StartsWith(img, "http://")
                          /\ Truthy(raw)
                          /\ img = IF StartsWith(raw[1], "http://")
                                   THEN "https://" \o From(raw[1], Len("http://") + 1)
                                   ELSE raw[1]
            /\ pc[c] = "done" => ret[c] = Some(results[c])

\* A scraped http:// URL that holds a second "http://" has been written back.
C9_Witness ==
    \E c \in Calls : \E i \in DOMAIN pages[c] :
        /\ pc[c] = "done"
        /\ pages[c][i] = RespOgHttp
        /\ ret[c][1][i].image = Some("https://i.com/a.jpg?u=http://j.com")

\* The text holds a match of https?://[^\s|"'>]+ : a scheme with at least one
\* character of a URL behind it.
HoldsUrl(text) ==
    \E i \in 1..Len(text) : \E p \in {"http://", "https://"} :
        /\ i + Len(p) <= Len(text)
        /\ SubSeq(text, i, i + Len(p) - 1) = p
        /\ SubSeq(text, i + Len(p), i + Len(p)) \notin UrlStop

\* The input is a redirect link that carries a URL: it holds the redirect
\* domain and an articles/ segment, and the base64-decoded text of the
\* segment holds an http(s) URL.
CarriesUrl(x) ==
    /\ x # None
    /\ Contains("news.google.com", x[1])
    /\ Contains("articles/", x[1])
    /\ LET at == Find(x[1], "articles/", 1)
           after == From(x[1], at + Len("articles/"))
           cuts == {k \in 1..Len(after) :
                      SubSeq(after, k, k) = "?" \/ StartsWith(From(after, k), "articles/")}
           token == IF cuts = {} THEN after
                    ELSE SubSeq(after, 1, (CHOOSE k \in cuts : \A j \in cuts : k <= j) - 1)
       IN  B64Text(token) # None /\ HoldsUrl(B64Text(token)[1])

\* C11.  decode_url never raises, and it returns its input unchanged unless
\* the input is a redirect link that carries a URL, in which case it returns
\* a URL out of the decoded text; so an input without the redirect domain or
\* without an articles/ segment comes back as it is.
C11_ResolverTotalAndIdentity ==
    resolver.at = "returned" =>
        LET x == resolver.source_url IN
        /\ ~resolver.raised
        /\ ~CarriesUrl(x) => resolver.out = x
        /\ CarriesUrl(x) =>
              /\ resolver.out # None
              /\ HoldsUrl(resolver.out[1])
              /\ \A k \in 1..Len(resolver.out[1]) :
                    SubSeq(resolver.out[1], k, k) \notin UrlStop
        /\ (x # None /\ (~Contains("news.google.com", x[1]) \/ ~Contains("articles/", x[1])))
              => resolver.out = x

\* A redirect link came back as the URL its token carries.
C11_Witness ==
    /\ resolver.at = "returned"
    /\ resolver.source_url = Some("https://news.google.com/rss/articles/eCBodHRwczovL2guY29tL2EiYg?oc=5")
    /\ resolver.out = Some("https://h.com/a")

\* The parameter u is missing, empty, or no http:// or https:// URL.
BadParam(q) ==
    \/ q = None
    \/ q[1] = ""
    \/ \A p \in {"http://", "https://"} :
          Len(q[1]) < Len(p) \/ SubSeq(q[1], 1, Len(p)) # p

\* C12.  /img answers 400, without any upstream request, when u is missing,
\* empty or does not start with http:// or https://; no request goes
\* upstream before the tests.  Otherwise it sends one request and answers
\* 404 when that request raises or comes back with a status >= 400, and else
\* the upstream body with the upstream Content-Type and
\* Cache-Control: public, max-age=86400 (one day).
C12_ProxyStatuses ==
    /\ proxy.at = "received" => proxy.sent = 0
    /\ proxy.at = "upstream" => ~BadParam(proxy.q) /\ proxy.sent = 1
    /\ proxy.at = "replied" =>
          IF BadParam(proxy.q)
          THEN proxy.reply.status = 400 /\ proxy.sent = 0
          ELSE /\ proxy.sent = 1
               /\ IF proxy.r.kind # "http" \/ proxy.r.status >= 400
                  THEN proxy.reply.status = 404
                  ELSE /\ proxy.reply.status \notin {400, 404}
                       /\ proxy.reply.body = proxy.r.body
                       /\ proxy.r.content_type # None =>
                             proxy.reply.content_type = proxy.r.content_type
                       /\ proxy.reply.cache_control = Some("public, max-age=86400")

\* An upstream answer below 400 has been relayed with its own Content-Type.
C12_Witness ==
    /\ proxy.at = "replied"
    /\ proxy.q = Some("https://x.com/?u=ftp://y")
    /\ proxy.r.status = 399
    /\ proxy.reply.body = "PNG"
    /\ proxy.reply.content_type = Some("text/html")

\* str.upper() of one character of a name.
UpperOf(ch) ==
    LET lo == "abcdefghijklmnopqrstuvwxyz(&!*$_"
        up == "ABCDEFGHIJKLMNOPQRSTUVWXYZ[@I%=^"
        at == Find(lo, ch, 1)
    IN  IF at = 0 THEN ch ELSE SubSeq(up, at, at)

\* The name occurs in the text in some letter case: somewhere in the text
\* stands, letter by letter, the name's letter or its capital.
OccursAnyCase(name, text) ==
    \E i \in 1..(Len(text) - Len(name) + 1) :
        \A k \in 1..Len(name) :
            SubSeq(text, i + k - 1, i + k - 1) \in {SubSeq(name, k, k), UpperOf(SubSeq(name, k, k))}

\* The city's name, and its spellings with the dotted capital I.
CityNames == {"istanbul", "#stanbul", "i+stanbul"}

\* C13.  is_istanbul_related is case-insensitive: it returns true exactly
\* when the city's name, plain or with the dotted I, occurs in the title or
\* in the link in any letter case, or a name of IST_DISTRICTS occurs in the
\* title in any letter case; a title or link that is None counts as "".
C13_RelevanceAnyCase ==
    relevance.at = "returned" =>
        LET t == IF relevance.title = None THEN "" ELSE relevance.title[1]
            l == IF relevance.link = None THEN "" ELSE relevance.link[1]
        IN  relevance.out =
               (\/ \E n \in CityNames : OccursAnyCase(n, t) \/ OccursAnyCase(n, l)
                \/ \E d \in IST_DISTRICTS : OccursAnyCase(d, t))

\* The items enrichment may touch: those among the first 12 of the list
\* that have no image from the feed.
MayTouch(base) ==
    {i \in 1..Len(base) : i <= 12 /\ ~Truthy(base[i].image)}

\* The indices of call c for which a fetch is queued, in flight or done.
InBatch(c) ==
    {work_queue[c][k].idx : k \in 1..Len(work_queue[c])}
        \cup running[c] \cup {fut.idx : fut \in finished[c]}

\* C14.  Enrichment touches only the items among the first 12 of the
\* filtered list that lack an image: every other item (one with an image from
\* the feed, one at position 13 or later) gets no fetch and keeps its image
\* field, and on every item all fields but image stay as the loop over the
\* entries left them.
C14_EnrichmentFrame ==
    \A c \in Calls :
        (Missed(c) /\ pc[c] # "raised") =>
            LET base == BeforeEnrichment(c)
                touch == MayTouch(base)
            IN
            /\ Len(results[c]) = Len(base)
            /\ \A i \in 1..Len(base) : SansImage(results[c][i]) = SansImage(base[i])
            /\ InBatch(c) \subseteq touch
            /\ \A i \in (1..Len(base)) \ touch :
                  /\ results[c][i].image = base[i].image
                  /\ i \in DOMAIN fetches[c] => fetches[c][i] = 0
            /\ requests[c] <= 1 + Cardinality(touch)
            /\ pc[c] = "done" => ret[c] = Some(results[c])

\* A returned list of more than 12 items: the 12th got its image from
\* enrichment, the 13th has none, and an earlier one keeps the feed's image.
C14_Witness ==
    \E c \in Calls :
        /\ pc[c] = "done" /\ Missed(c)
        /\ Len(ret[c][1]) > 12
        /\ Truthy(ret[c][1][12].image)
        /\ ~Truthy(ret[c][1][13].image)
        /\ LET base == BeforeEnrichment(c)
           IN  /\ ~Truthy(base[12].image)
               /\ \E i \in 1..11 : Truthy(base[i].image) /\ ret[c][1][i].image = base[i].image

\* The indices call c queued for a fetch.
Queued(c) == {scrape_queue[c][k].idx : k \in 1..Len(scrape_queue[c])}

\* C15.  In one call every queued item gets exactly one fetch: none is
\* started twice, each has been started once when the call returns, and an
\* item whose fetch failed (an error, a timeout, a status >= 400) is returned
\* without an image.
C15_OneFetchPerItem ==
    \A c \in Calls :
        (Missed(c) /\ pc[c] # "raised") =>
            /\ DOMAIN fetches[c] = Queued(c)
            /\ Cardinality(Queued(c)) = Len(scrape_queue[c])
            /\ \A i \in Queued(c) :
                  /\ fetches[c][i] <= 1
                  /\ fetches[c][i] = 0 <=> \E k \in 1..Len(work_queue[c]) : work_queue[c][k].idx = i
            /\ requests[c] <= 1 + Len(scrape_queue[c])
            /\ pc[c] = "done" =>
                  \A i \in Queued(c) :
                      /\ fetches[c][i] = 1
                      /\ FetchFails(pages[c][i]) => ~Truthy(ret[c][1][i].image)

\* A call returned after the fetch of one item failed and that of another
\* gave an image: each was fetched once, the first has no image.
C15_Witness ==
    \E c \in Calls : \E i, j \in DOMAIN fetches[c] :
        /\ pc[c] = "done"
        /\ pages[c][i].kind = "error" /\ fetches[c][i] = 1 /\ ~Truthy(ret[c][1][i].image)
        /\ fetches[c][j] = 1 /\ Truthy(ret[c][1][j].image)
        /\ requests[c] = 1 + Len(scrape_queue[c])

\* The entry under key k is not the same before and after the step: it was
\* added, removed or replaced.
Touched(k) ==
    \/ k \in DOMAIN CACHE /\ k \notin DOMAIN CACHE'
    \/ k \notin DOMAIN CACHE /\ k \in DOMAIN CACHE'
    \/ k \in DOMAIN CACHE /\ k \in DOMAIN CACHE' /\ CACHE'[k] # CACHE[k]

\* C16.  Eviction is lazy and per key.  The passing of time removes nothing.
\* The entry under a key changes only in a step of a call on that very key:
\* it goes in the pop of a cache_get that saw an entry under the key expired,
\* and it is put or replaced in a cache_set.  So no cache_get and no
\* cache_set touches the entry of another key.
C16_LazyPerKeyEviction ==
    [][/\ now' # now => CACHE' = CACHE
       /\ \A k \in (DOMAIN CACHE) \cup (DOMAIN CACHE') :
             Touched(k) =>
                \E c \in Calls :
                    /\ CacheKey(args[c]) = k
                    /\ pc'[c] # pc[c]
                    /\ \A d \in Calls \ {c} : pc'[d] = pc[d]
                    /\ \/ pc[c] = "evict" /\ k \notin DOMAIN CACHE'
                       \/ pc[c] = "enrich" /\ pc'[c] = "done" /\ k \in DOMAIN CACHE'
       /\ \A c \in Calls :
             (pc[c] = "idle" /\ pc'[c] = "evict") =>
                 /\ CACHE' = CACHE
                 /\ now > CACHE[CacheKey(args'[c])].exp
      ]_vars

\* An expired entry is still in the cache while a call on another key has
\* stored and returned its own list.
C16_Witness ==
    \E c \in Calls : \E k \in DOMAIN CACHE :
        /\ now > CACHE[k].exp
        /\ pc[c] = "done" /\ Missed(c)
        /\ CacheKey(args[c]) # k
        /\ CacheKey(args[c]) \in DOMAIN CACHE

\* Call c has missed and is at work on the feed or on its batch.
AtWork(c) == pc[c] \in {"fetch", "enrich"}

\* C17.  Nothing keeps two calls on one key apart: both can miss and both
\* fetch and enrich.  Each then writes the cache in one step, and what it
\* writes is its own finished list, whole: the entry under the key is always
\* the list of the call that wrote last, never a part of one list with a
\* part of another.
C17_LastWriterWins ==
    [][/\ \A c \in Calls :
             (pc[c] = "enrich" /\ pc'[c] = "done") =>
                 /\ NothingOutstanding(c)
                 /\ results[c] = EnrichedByIndex(c)
                 /\ ret'[c] = Some(results[c])
                 /\ CACHE'[CacheKey(args[c])] = [exp |-> now + CACHE_TTL, data |-> results[c]]
       /\ \A k \in DOMAIN CACHE' :
             (k \notin DOMAIN CACHE \/ CACHE'[k] # CACHE[k]) =>
                 \E c \in Calls :
                     /\ pc[c] = "enrich" /\ pc'[c] = "done"
                     /\ CacheKey(args[c]) = k
                     /\ CACHE'[k].data = results[c]
       /\ \A c, d \in Calls :
             (c # d /\ pc'[c] = "done" /\ pc'[d] = "done" /\ Missed(c)' /\ Missed(d)'
                    /\ args'[c] = args'[d]) =>
                 CACHE'[CacheKey(args'[c])].data \in {ret'[c][1], ret'[d][1]}
      ]_vars

\* Two calls on one key are both past the cache and both have a fetch in
\* flight.
C17_Witness ==
    \E c, d \in Calls :
        /\ c # d /\ args[c] = args[d]
        /\ AtWork(c) /\ AtWork(d)
        /\ requests[c] > 1 /\ requests[d] > 1
        /\ running[c] # {} /\ running[d] # {}
        /\ feed[c] # feed[d]

\* C18.  On a miss the call stores under its key the very list it returns,
\* an empty one too.  Every write-back of the batch comes before that write:
\* the list of a call changes only while the call is enriching, in steps that
\* leave the cache alone, and an entry changes only by a cache_set that
\* replaces it.  A hit returns the entry's list as it stands and changes
\* nothing, so all hits on one entry return the same content.
C18_StoredIsReturned ==
    [][/\ \A c \in Calls :
             (pc[c] = "enrich" /\ pc'[c] = "done") =>
                 /\ ret'[c] = Some(results[c])
                 /\ CACHE'[CacheKey(args[c])].data = ret'[c][1]
       /\ \A c \in Calls :
             (pc[c] = "enrich" /\ results'[c] # results[c]) =>
                 pc'[c] = "enrich" /\ CACHE' = CACHE
       /\ \A c \in Calls :
             (pc[c] = "done" /\ pc'[c] = "done") => results'[c] = results[c] /\ ret'[c] = ret[c]
       /\ \A k \in (DOMAIN CACHE) \cap (DOMAIN CACHE') :
             CACHE'[k].data # CACHE[k].data =>
                 \E c \in Calls :
                     /\ pc[c] = "enrich" /\ pc'[c] = "done"
                     /\ CacheKey(args[c]) = k
       /\ \A c \in Calls :
             (pc[c] = "idle" /\ pc'[c] = "done") =>
                 /\ ret'[c] = Some(CACHE[CacheKey(args'[c])].data)
                 /\ CACHE' = CACHE
      ]_vars

\* Two calls are served from one entry, with the same list, which enrichment
\* had given an image before it was stored.
C18_Witness ==
    \E c, d \in Calls :
        /\ c # d /\ args[c] = args[d]
        /\ pc[c] = "done" /\ IsHit(cached[c])
        /\ pc[d] = "done" /\ IsHit(cached[d])
        /\ ret[c] = ret[d]
        /\ ret[c] = Some(CACHE[CacheKey(args[c])].data)
        /\ Truthy(ret[c][1][1].image)

\* C19.  The TTL is fixed.  A cache_set gives the entry the expiry time
\* now + CACHE_TTL, and nothing but a cache_set on the key changes it: a hit
\* leaves the entry as it is.  A hit happens only up to the expiry time, so a
\* list is served for at most CACHE_TTL = 180 seconds after the set that
\* stored it; a call that looks the key up later gets nothing from the cache,
\* pops the entry and fetches the feed.
C19_FixedTtl ==
    [][/\ CACHE_TTL = 180
       /\ \A c \in Calls :
             (pc[c] = "enrich" /\ pc'[c] = "done") =>
                 CACHE'[CacheKey(args[c])].exp = now + CACHE_TTL
       /\ \A k \in (DOMAIN CACHE) \cap (DOMAIN CACHE') :
             CACHE'[k].exp # CACHE[k].exp =>
                 \E c \in Calls :
                     pc[c] = "enrich" /\ pc'[c] = "done" /\ CacheKey(args[c]) = k
       /\ \A c \in Calls :
             (pc[c] = "idle" /\ pc'[c] = "done") =>
                 /\ CACHE' = CACHE
                 /\ now <= CACHE[CacheKey(args'[c])].exp
       /\ \A c \in Calls :
             LET key == CacheKey(args'[c]) IN
             (pc[c] = "idle" /\ pc'[c] # "idle" /\ key \in DOMAIN CACHE /\ now > CACHE[key].exp) =>
                 pc'[c] = "evict" /\ cached'[c] = None /\ ret'[c] = None
       /\ \A c \in Calls :
             (pc[c] = "evict" /\ pc'[c] # "evict") => pc'[c] = "fetch"
       /\ \A c \in Calls :
             (pc[c] = "fetch" /\ pc'[c] # "fetch") => requests'[c] = requests[c] + 1
      ]_vars

\* A call was served from an entry; the entry's time has run out since, and
\* another call on the key is past the pop, about to fetch the feed.
C19_Witness ==
    \E c, d \in Calls :
        /\ c # d /\ args[c] = args[d]
        /\ pc[d] = "done" /\ IsHit(cached[d])
        /\ pc[c] = "fetch" /\ requests[c] = 0
        /\ now > CACHE_TTL
        /\ CacheKey(args[c]) \notin DOMAIN CACHE

\* C20.  The second filter pass of breaking_news changes nothing: every
\* list fetch_google_news returns to it, fetched or from the cache, holds only
\* items that pass is_istanbul_related(title, link), so the list after the
\* pass is the list before it, item by item.
C20_SecondPassIsNoOp ==
    \A c \in Calls :
        /\ (pc[c] = "done" /\ args[c] = BreakingArgs) =>
              \A i \in 1..Len(ret[c][1]) :
                  is_istanbul_related(Some(ret[c][1][i].title), Some(ret[c][1][i].link))
        /\ data[c] # None => data[c] = ret[c]

\* A list served from the cache went through the second pass: it holds an
\* item that passes by its link alone and one that passes by its title.
C20_Witness ==
    \E c \in Calls :
        /\ data[c] # None
        /\ IsHit(cached[c])
        /\ \E i, j \in 1..Len(data[c][1]) :
              /\ data[c][1][i].title = ""
              /\ Contains("istanbul", data[c][1][i].link)
              /\ Contains("Kartal", data[c][1][j].title)

====
